---- MODULE Spec2Model ----
(***************************************************************************)
(* A model of castform's EcobeeActor (src/src/ecobee.rs): the actor that   *)
(* authenticates against the vendor API, refreshes the token on a 24 h     *)
(* timer, polls /1/thermostat on a 60 s timer, caches the device list and  *)
(* answers status queries from the cache.                                  *)
(*                                                                         *)
(* Every vendor call is a future spawned on the arbiter: it is in flight   *)
(* (inflight) until the vendor answers, and its result reaches the actor   *)
(* only as a mailbox message (try_send).  Handlers run one at a time.      *)
(***************************************************************************)
EXTENDS Integers, Sequences, FiniteSets, TLC

\* ------------------------------------------------------------------ bounds
MaxPollTicks == 2       \* how many times the 60 s timer fires
MaxRefreshTicks == 1    \* how many times the 24 h timer fires
MaxWrites == 1          \* how many write commands are in flight at once
MailboxCap == 1         \* capacity of the actor's mailbox
MaxCredRefreshTicks == 2  \* 24 h ticks in the credential specification

\* ------------------------------------------------------ data: AuthToken
\* Option<AuthToken>: None is <<>>, Some(t) is <<t>>.
None == <<>>
Some(t) == <<t>>

\* The k-th pair the vendor mints; the two strings of one pair differ.
AccessOf(k) == 100 + k
RefreshOf(k) == 200 + k
AuthToken(a, r) == [access_token |-> a, refresh_token |-> r]
NoTok == AuthToken(0, 0)

\* ----------------------------------------------------- data: Thermostat
Thermostat(t, h, dh, dc, dhum, mode) ==
    [temperature |-> t, humidity |-> h, desired_heat |-> dh,
     desired_cool |-> dc, desired_humidity |-> dhum, hvac_mode |-> mode]

DevA == Thermostat(980, 40, 680, 780, 45, "heat")
DevB == Thermostat(725, 55, 700, 760, 30, "auto")
DevC == Thermostat(310, 62, 600, 620, 36, "off")

\* The device lists the vendor may answer a poll with.
DeviceLists == { <<>>, <<DevA>>, <<DevB, DevC>> }

\* --------------------------------------------------- data: response body
\* A fully buffered body: not JSON at all, or a JSON object holding the keys
\* in `keys` (any other key is ignored by serde).
Keys == {"access_token", "refresh_token", "error", "error_description",
         "thermostatList"}

Body0 == [json |-> TRUE, keys |-> {}, access_token |-> 0, refresh_token |-> 0,
          error |-> "", error_description |-> "", thermostatList |-> <<>>]

Garbage == [Body0 EXCEPT !.json = FALSE]
TokenBody(k) == [Body0 EXCEPT !.keys = {"access_token", "refresh_token"},
                              !.access_token = AccessOf(k),
                              !.refresh_token = RefreshOf(k)]
HalfTokenBody(k) == [Body0 EXCEPT !.keys = {"access_token"},
                                  !.access_token = AccessOf(k)]
EnvelopeBody(e, d) == [Body0 EXCEPT !.keys = {"error", "error_description"},
                                    !.error = e, !.error_description = d]
HalfEnvelopeBody(e) == [Body0 EXCEPT !.keys = {"error"}, !.error = e]
ThermostatBody(l) == [Body0 EXCEPT !.keys = {"thermostatList"},
                                   !.thermostatList = l]
\* ------------------------------------------------------- data: Result<R>
Res0 == [tag |-> "None", of |-> "", token |-> NoTok, thermostats |-> <<>>,
         error |-> "", error_description |-> "", msg |-> <<>>]
OkToken(t) == [Res0 EXCEPT !.tag = "Ok", !.of = "AuthToken", !.token = t]
OkThermostats(l) ==
    [Res0 EXCEPT !.tag = "Ok", !.of = "ThermostatResponse", !.thermostats = l]
OkUnit == [Res0 EXCEPT !.tag = "Ok", !.of = "()"]
RemoteError(e, d) ==
    [Res0 EXCEPT !.tag = "RemoteError", !.error = e, !.error_description = d]
JsonError(T, m) == [Res0 EXCEPT !.tag = "JsonError", !.of = T, !.msg = m]
TransportError == [Res0 EXCEPT !.tag = "TransportError"]
ErrMsg(m) == [Res0 EXCEPT !.tag = "ErrMsg", !.msg = m]

\* ------------------------------------------------- serde_json::from_slice
\* The required fields of each deserialized struct, in declaration order.
Fields(T) ==
    CASE T = "AuthToken" -> <<"access_token", "refresh_token">>
      [] T = "ErrorMessage" -> <<"error", "error_description">>
      [] T = "ThermostatResponse" -> <<"thermostatList">>

MissingFields(T, body) ==
    { i \in 1..Len(Fields(T)) : Fields(T)[i] \notin body.keys }

FirstMissing(T, body) ==
    Fields(T)[CHOOSE i \in MissingFields(T, body) :
                  \A j \in MissingFields(T, body) : i <= j]

Project(T, body) ==
    CASE T = "AuthToken" ->
           OkToken(AuthToken(body.access_token, body.refresh_token))
      [] T = "ErrorMessage" -> RemoteError(body.error, body.error_description)
      [] T = "ThermostatResponse" -> OkThermostats(body.thermostatList)

\* Deserialize `body` as T: the value, or serde's error for T.
from_slice(T, body) ==
    IF ~body.json THEN JsonError(T, <<"expected value">>)
    ELSE IF MissingFields(T, body) # {}
         THEN JsonError(T, <<"missing field", FirstMissing(T, body)>>)
         ELSE Project(T, body)

\* A send_request that reports the envelope's parse error when neither shape
\* matches.
send_request_EnvelopeError(T, transport_ok, body) ==
    IF ~transport_ok THEN TransportError
    ELSE LET r == from_slice(T, body)
             error_message == from_slice("ErrorMessage", body)
         IN IF r.tag = "Ok" THEN r ELSE error_message

\* send_request::<T>: the exchange fails (hyper error), or the buffered body
\* is parsed as T; a body that does not parse as T is tried as ErrorMessage.
send_request(T, transport_ok, body) ==
    IF ~transport_ok THEN TransportError
    ELSE LET r == from_slice(T, body)
             error_message == from_slice("ErrorMessage", body)
         IN IF r.tag = "Ok" THEN r
            ELSE IF error_message.tag = "RemoteError" THEN error_message
                 ELSE r

\* ------------------------------------------------------- default_request
NoAuth == 0
Bearer(access_token) == access_token

\* A default_request that sends an empty bearer when no token is stored.
default_request_EmptyBearer(auth, token) ==
    IF auth
    THEN IF token = None THEN [ok |-> TRUE, authorization |-> Bearer(NoTok.access_token)]
         ELSE [ok |-> TRUE, authorization |-> Bearer(token[1].access_token)]
    ELSE [ok |-> TRUE, authorization |-> NoAuth]

\* A default_request that keeps sending the first access token obtained.
default_request_FirstBearer(auth, token) ==
    IF auth
    THEN IF token = None THEN [ok |-> FALSE, authorization |-> NoAuth]
         ELSE [ok |-> TRUE, authorization |-> Bearer(AccessOf(1))]
    ELSE [ok |-> TRUE, authorization |-> NoAuth]

\* default_request(auth): the builder with the fixed headers; with auth, the
\* Authorization header of the stored token, or Err when none is stored.
default_request(auth, token) ==
    IF auth
    THEN IF token = None THEN [ok |-> FALSE, authorization |-> NoAuth]
         ELSE [ok |-> TRUE, authorization |-> Bearer(token[1].access_token)]
    ELSE [ok |-> TRUE, authorization |-> NoAuth]

\* -------------------------------------------------- status normalization
\* f32 values are carried as exact scaled integers: a Fahrenheit value in
\* twentieths of a degree, every reported value in hundredths, rounded to
\* the nearest hundredth.
RoundDiv(a, b) == (2 * a + b) \div (2 * b)

\* An ftoc that divides before it subtracts: f / 1.8 - 32.0.
ftoc_DivideFirst(f20) == RoundDiv(f20 * 100, 36) - 3200

\* ftoc(f) = (f - 32.0) / 1.8, f in twentieths of a degree Fahrenheit.
ftoc(f20) == RoundDiv((f20 - 640) * 100, 36)

EcobeeStatus(mode, target, current, humidity, target_humidity) ==
    [target_heating_cooling_state |-> mode,
     target_temperature |-> target,
     target_relative_humidity |-> target_humidity,
     current_heating_cooling_state |-> mode,
     current_temperature |-> current,
     current_relative_humidity |-> humidity]

Status0 == EcobeeStatus(0, 0, 0, 0, 0)
OkStatus(s) == [ok |-> TRUE, status |-> s, err |-> ""]
ErrStatus(m) == [ok |-> FALSE, status |-> Status0, err |-> m]
NoReply == ErrStatus("")

\* A mode table with the codes of "cool" and "heat" exchanged.
hvac_mode_code_Swapped(m) ==
    CASE m = "auto" -> 3
      [] m = "cool" -> 1
      [] m = "heat" -> 2
      [] OTHER -> 0

\* match &thermostat.settings.hvac_mode[..]
hvac_mode_code(m) ==
    CASE m = "auto" -> 3
      [] m = "cool" -> 2
      [] m = "heat" -> 1
      [] OTHER -> 0

\* A normalization that adds the two set points without averaging them
\* (divides the sum by 10.0).
Normalize_SumNotAverage(thermostat) ==
    LET mode == hvac_mode_code(thermostat.hvac_mode)
        target == 2 * (thermostat.desired_heat + thermostat.desired_cool)
        current == 2 * thermostat.temperature
        humidity == 100 * thermostat.humidity
        target_humidity == 100 * thermostat.desired_humidity
    IN EcobeeStatus(mode, ftoc(target), ftoc(current), humidity,
                    RoundDiv(target_humidity, 100))

\* The status computed from one cached device.
Normalize(thermostat) ==
    LET mode == hvac_mode_code(thermostat.hvac_mode)
        target == thermostat.desired_heat + thermostat.desired_cool
        current == 2 * thermostat.temperature
        humidity == 100 * thermostat.humidity
        target_humidity == 100 * thermostat.desired_humidity
    IN EcobeeStatus(mode, ftoc(target), ftoc(current), humidity,
                    RoundDiv(target_humidity, 100))

\* A query handler that answers with a zeroed status when nothing is cached.
EcobeeQueryHandle_Default(cache) ==
    IF Len(cache) > 0 THEN OkStatus(Normalize(cache[1]))
    ELSE OkStatus(Status0)

\* Handler<EcobeeQuery>::handle as a function of the cached list.
EcobeeQueryHandle(cache) ==
    IF Len(cache) > 0 THEN OkStatus(Normalize(cache[1]))
    ELSE ErrStatus("no thermostat available")

\* ------------------------------------------------------------------ state
VARIABLES
    started,        \* Actor::started has run
    auth_token,     \* EcobeeActor.auth_token: Option<AuthToken>
    thermostats,    \* EcobeeActor.thermostats: Vec<Thermostat>
    inflight,       \* vendor calls spawned on the arbiter and not yet answered
    mailbox,        \* messages sent to the actor and not yet handled
    minted,         \* how many token pairs the vendor has minted
    pollTicks,      \* how many times the poll interval has fired
    refreshTicks,   \* how many times the refresh interval has fired
    newest,         \* history: the latest-issued poll among those applied
    last,           \* history: what the last step did
    exchange        \* the HTTP exchange send_request was last applied to

vars == <<started, auth_token, thermostats, inflight, mailbox, minted,
          pollTicks, refreshTicks, newest, last, exchange>>

\* A vendor call in flight: its kind, its tick number, and the credential
\* string its request carries (the bearer, or the refresh token).
Call(kind, n, cred) == [kind |-> kind, n |-> n, cred |-> cred]

SetAuthToken(t) ==
    [type |-> "SetAuthToken", token |-> t, thermostats |-> <<>>, n |-> 0]
UpdateThermostat(l, n) ==
    [type |-> "UpdateThermostat", token |-> NoTok, thermostats |-> l, n |-> n]

\* What a step did: the operation, whether its call succeeded, and the
\* reply given to the caller of a query.
Last0 == [op |-> "init", ok |-> TRUE, reply |-> NoReply]
Event(op, ok) == [Last0 EXCEPT !.op = op, !.ok = ok]

Exchange0 == [T |-> "", transport_ok |-> TRUE, body |-> Body0, result |-> Res0]
Poll0 == [n |-> 0, thermostats |-> <<>>]

\* from_config: no token, no thermostats.
Init ==
    /\ started = FALSE
    /\ auth_token = None
    /\ thermostats = <<>>
    /\ inflight = {}
    /\ mailbox = <<>>
    /\ minted = 0
    /\ pollTicks = 0
    /\ refreshTicks = 0
    /\ newest = Poll0
    /\ last = Last0
    /\ exchange = Exchange0

\* ------------------------------------------------------------- the vendor
\* The bodies the vendor can answer a call with: not JSON, an error
\* envelope (whole or truncated), or the payload of the endpoint (whole or
\* truncated); a token payload carries the next pair the vendor mints.
Bodies(kind) ==
    { Garbage, HalfEnvelopeBody("invalid_grant"),
      EnvelopeBody("invalid_grant", "expired") }
    \cup (IF kind = "poll"
          THEN { ThermostatBody(l) : l \in DeviceLists }
          ELSE { TokenBody(minted + 1), HalfTokenBody(minted + 1) })

\* The vendor's answers: a failed exchange carries no body.
Answers(kind) == { <<TRUE, b>> : b \in Bodies(kind) } \cup { <<FALSE, Body0>> }

Mints(body) == {"access_token", "refresh_token"} \subseteq body.keys

\* Addr::try_send: the message is queued unless the mailbox is full.
CanSend == Len(mailbox) < MailboxCap

\* ---------------------------------------------------------------- actions
\* Actor::started: spawn the initial auth() and register both intervals.
\* auth() builds its request with default_request(false).
Started ==
    /\ ~started
    /\ default_request(FALSE, auth_token).ok
    /\ started' = TRUE
    /\ inflight' = inflight \cup {Call("auth", 0, NoAuth)}
    /\ last' = Event("started", TRUE)
    /\ UNCHANGED <<auth_token, thermostats, mailbox, minted, pollTicks,
                   refreshTicks, newest, exchange>>

\* A refresh interval that keeps sending the refresh token of the initial
\* authentication.
RefreshIntervalTick_FirstToken(max) ==
    /\ started
    /\ refreshTicks < max
    /\ refreshTicks' = refreshTicks + 1
    /\ IF auth_token # None
       THEN inflight' = inflight \cup
               {Call("refresh", refreshTicks + 1, RefreshOf(1))}
       ELSE inflight' = inflight
    /\ last' = Event("refresh_tick", auth_token # None)
    /\ UNCHANGED <<started, auth_token, thermostats, mailbox, minted,
                   pollTicks, newest, exchange>>

\* The 24 h interval, firing at most `max` times: with a stored token,
\* spawn refresh_token(its refresh token); without one, do nothing.
RefreshIntervalTick(max) ==
    /\ started
    /\ refreshTicks < max
    /\ refreshTicks' = refreshTicks + 1
    /\ IF auth_token # None
       THEN inflight' = inflight \cup
               {Call("refresh", refreshTicks + 1, auth_token[1].refresh_token)}
       ELSE inflight' = inflight
    /\ last' = Event("refresh_tick", auth_token # None)
    /\ UNCHANGED <<started, auth_token, thermostats, mailbox, minted,
                   pollTicks, newest, exchange>>

RefreshTick == RefreshIntervalTick(MaxRefreshTicks)

\* The 60 s interval: spawn get_thermostat(); when default_request(true)
\* fails the future is an immediate error and nothing is sent.
PollTick ==
    /\ started
    /\ pollTicks < MaxPollTicks
    /\ pollTicks' = pollTicks + 1
    /\ LET req == default_request(TRUE, auth_token)
       IN /\ IF req.ok
             THEN inflight' = inflight \cup
                     {Call("poll", pollTicks + 1, req.authorization)}
             ELSE inflight' = inflight
          /\ last' = Event("poll_tick", req.ok)
    /\ UNCHANGED <<started, auth_token, thermostats, mailbox, minted,
                   refreshTicks, newest, exchange>>

\* The vendor's answer to call c resolves its future with result r; on Ok
\* the continuation try_sends `msg`, on Err (or a failed send) it only logs.
Resolve(op, c, transport_ok, body, r, msg) ==
    /\ inflight' = inflight \ {c}
    /\ minted' = IF transport_ok /\ Mints(body) THEN minted + 1 ELSE minted
    /\ mailbox' = IF r.tag = "Ok" /\ CanSend THEN Append(mailbox, msg)
                  ELSE mailbox
    /\ last' = Event(op, r.tag = "Ok")
    /\ UNCHANGED <<started, pollTicks, refreshTicks, newest, exchange>>

\* An initial authentication that is sent again when it fails.
AuthComplete_Retries(c, transport_ok, body) ==
    /\ c \in inflight
    /\ c.kind = "auth"
    /\ LET r == send_request("AuthToken", transport_ok, body)
       IN /\ inflight' = IF r.tag = "Ok" THEN inflight \ {c} ELSE inflight
          /\ minted' = IF transport_ok /\ Mints(body) THEN minted + 1
                       ELSE minted
          /\ mailbox' = IF r.tag = "Ok" /\ CanSend
                        THEN Append(mailbox, SetAuthToken(r.token))
                        ELSE mailbox
          /\ last' = Event("auth_done", r.tag = "Ok")
    /\ UNCHANGED <<started, auth_token, thermostats, pollTicks, refreshTicks,
                   newest, exchange>>

\* The initial auth() future completes.
AuthComplete(c, transport_ok, body) ==
    /\ c \in inflight
    /\ c.kind = "auth"
    /\ LET r == send_request("AuthToken", transport_ok, body)
       IN Resolve("auth_done", c, transport_ok, body, r, SetAuthToken(r.token))
    /\ UNCHANGED <<auth_token, thermostats>>

\* A refresh whose failure drops the stored token.
RefreshComplete_ClearsToken(c, transport_ok, body) ==
    /\ c \in inflight
    /\ c.kind = "refresh"
    /\ LET r == send_request("AuthToken", transport_ok, body)
       IN /\ Resolve("refresh_done", c, transport_ok, body, r,
                     SetAuthToken(r.token))
          /\ auth_token' = IF r.tag = "Ok" THEN auth_token ELSE None
    /\ UNCHANGED thermostats

\* A refresh_token() future completes.
RefreshComplete(c, transport_ok, body) ==
    /\ c \in inflight
    /\ c.kind = "refresh"
    /\ LET r == send_request("AuthToken", transport_ok, body)
       IN Resolve("refresh_done", c, transport_ok, body, r,
                  SetAuthToken(r.token))
    /\ UNCHANGED <<auth_token, thermostats>>

\* A poll that is sent again at once when it fails.
PollComplete_Retries(c, transport_ok, body) ==
    /\ c \in inflight
    /\ c.kind = "poll"
    /\ LET r == send_request("ThermostatResponse", transport_ok, body)
       IN /\ inflight' = IF r.tag = "Ok" THEN inflight \ {c} ELSE inflight
          /\ mailbox' = IF r.tag = "Ok" /\ CanSend
                        THEN Append(mailbox, UpdateThermostat(r.thermostats, c.n))
                        ELSE mailbox
          /\ last' = Event("poll_done", r.tag = "Ok")
    /\ UNCHANGED <<started, auth_token, thermostats, minted, pollTicks,
                   refreshTicks, newest, exchange>>

\* A poll that writes its result into the cache itself when the mailbox
\* does not take the message.
PollComplete_AppliesWhenFull(c, transport_ok, body) ==
    /\ c \in inflight
    /\ c.kind = "poll"
    /\ LET r == send_request("ThermostatResponse", transport_ok, body)
       IN /\ Resolve("poll_done", c, transport_ok, body, r,
                     UpdateThermostat(r.thermostats, c.n))
          /\ thermostats' = IF r.tag = "Ok" /\ ~CanSend THEN r.thermostats
                            ELSE thermostats
    /\ UNCHANGED auth_token

\* A poll whose failure empties the cache.
PollComplete_ClearsCache(c, transport_ok, body) ==
    /\ c \in inflight
    /\ c.kind = "poll"
    /\ LET r == send_request("ThermostatResponse", transport_ok, body)
       IN /\ Resolve("poll_done", c, transport_ok, body, r,
                     UpdateThermostat(r.thermostats, c.n))
          /\ thermostats' = IF r.tag = "Ok" THEN thermostats ELSE <<>>
    /\ UNCHANGED auth_token

\* A get_thermostat() future completes.
PollComplete(c, transport_ok, body) ==
    /\ c \in inflight
    /\ c.kind = "poll"
    /\ LET r == send_request("ThermostatResponse", transport_ok, body)
       IN Resolve("poll_done", c, transport_ok, body, r,
                  UpdateThermostat(r.thermostats, c.n))
    /\ UNCHANGED <<auth_token, thermostats>>

\* A SetAuthToken handler that overwrites only the access token of a
\* credential already stored.
HandleSetAuthToken_KeepsRefresh ==
    /\ mailbox # <<>>
    /\ Head(mailbox).type = "SetAuthToken"
    /\ auth_token' =
          IF auth_token = None THEN Some(Head(mailbox).token)
          ELSE Some(AuthToken(Head(mailbox).token.access_token,
                              auth_token[1].refresh_token))
    /\ mailbox' = Tail(mailbox)
    /\ last' = Event("SetAuthToken", TRUE)
    /\ UNCHANGED <<started, thermostats, inflight, minted, pollTicks,
                   refreshTicks, newest, exchange>>

\* A SetAuthToken handler that also drops the cached devices.
HandleSetAuthToken_ResetsCache ==
    /\ mailbox # <<>>
    /\ Head(mailbox).type = "SetAuthToken"
    /\ auth_token' = Some(Head(mailbox).token)
    /\ thermostats' = <<>>
    /\ mailbox' = Tail(mailbox)
    /\ last' = Event("SetAuthToken", TRUE)
    /\ UNCHANGED <<started, inflight, minted, pollTicks, refreshTicks,
                   newest, exchange>>

\* Handler<SetAuthToken>::handle
HandleSetAuthToken ==
    /\ mailbox # <<>>
    /\ Head(mailbox).type = "SetAuthToken"
    /\ auth_token' = Some(Head(mailbox).token)
    /\ mailbox' = Tail(mailbox)
    /\ last' = Event("SetAuthToken", TRUE)
    /\ UNCHANGED <<started, thermostats, inflight, minted, pollTicks,
                   refreshTicks, newest, exchange>>

\* An update that overwrites the cached devices field by field, keeping the
\* settings of a device already cached.
ApplyUpdate_Merge(cache, update) ==
    [i \in 1..Len(update) |->
        IF i <= Len(cache)
        THEN [update[i] EXCEPT !.hvac_mode = cache[i].hvac_mode]
        ELSE update[i]]

\* An update that appends to the cached devices.
ApplyUpdate_Append(cache, update) == cache \o update

\* self.thermostats = update.0.thermostats
ApplyUpdate(cache, update) == update

\* Handler<UpdateThermostat>::handle
HandleUpdateThermostat ==
    /\ mailbox # <<>>
    /\ Head(mailbox).type = "UpdateThermostat"
    /\ thermostats' = ApplyUpdate(thermostats, Head(mailbox).thermostats)
    /\ mailbox' = Tail(mailbox)
    /\ newest' = IF Head(mailbox).n >= newest.n
                 THEN [n |-> Head(mailbox).n,
                       thermostats |-> Head(mailbox).thermostats]
                 ELSE newest
    /\ last' = Event("UpdateThermostat", TRUE)
    /\ UNCHANGED <<started, auth_token, inflight, minted, pollTicks,
                   refreshTicks, exchange>>

\* A query handler that waits until no vendor call is in flight.
HandleEcobeeQuery_WaitsForCalls ==
    /\ started
    /\ inflight = {}
    /\ last' = [Event("EcobeeQuery", EcobeeQueryHandle(thermostats).ok)
                   EXCEPT !.reply = EcobeeQueryHandle(thermostats)]
    /\ UNCHANGED <<started, auth_token, thermostats, inflight, mailbox,
                   minted, pollTicks, refreshTicks, newest, exchange>>

\* Handler<EcobeeQuery>::handle: answered from the cache alone.
HandleEcobeeQuery ==
    /\ started
    /\ last' = [Event("EcobeeQuery", EcobeeQueryHandle(thermostats).ok)
                   EXCEPT !.reply = EcobeeQueryHandle(thermostats)]
    /\ UNCHANGED <<started, auth_token, thermostats, inflight, mailbox,
                   minted, pollTicks, refreshTicks, newest, exchange>>

\* The write calls in flight.
Writes == { c \in inflight : c.kind \in {"HvacMode", "Temperature"} }

\* The write commands the front end sends (server.rs: ChangeThermostat::
\* HvacMode, ChangeThermostat::Temperature): an authenticated vendor call
\* whose result goes back to the caller.
HandleChangeThermostat(cmd) ==
    /\ started
    /\ Cardinality(Writes) < MaxWrites
    /\ LET req == default_request(TRUE, auth_token)
       IN /\ IF req.ok
             THEN inflight' = inflight \cup {Call(cmd, 0, req.authorization)}
             ELSE inflight' = inflight
          /\ last' = Event("ChangeThermostat", req.ok)
    /\ UNCHANGED <<started, auth_token, thermostats, mailbox, minted,
                   pollTicks, refreshTicks, newest, exchange>>

\* The vendor confirms or rejects a write; the cache is left to the next poll.
WriteComplete(c, confirmed) ==
    /\ c \in Writes
    /\ inflight' = inflight \ {c}
    /\ last' = Event("write_done", confirmed)
    /\ UNCHANGED <<started, auth_token, thermostats, mailbox, minted,
                   pollTicks, refreshTicks, newest, exchange>>

Next ==
    \/ Started
    \/ RefreshTick
    \/ PollTick
    \/ \E c \in inflight, a \in Answers("auth") : AuthComplete(c, a[1], a[2])
    \/ \E c \in inflight, a \in Answers("refresh") :
          RefreshComplete(c, a[1], a[2])
    \/ \E c \in inflight, a \in Answers("poll") : PollComplete(c, a[1], a[2])
    \/ HandleSetAuthToken
    \/ HandleUpdateThermostat
    \/ HandleEcobeeQuery
    \/ \E cmd \in {"HvacMode", "Temperature"} : HandleChangeThermostat(cmd)
    \/ \E c \in inflight, ok \in BOOLEAN : WriteComplete(c, ok)

Spec == Init /\ [][Next]_vars

\* ------------------------------------------- the credential over two days
\* The actor without the front end's write commands, its refresh interval
\* firing MaxCredRefreshTicks times.
NextCred ==
    \/ Started
    \/ RefreshIntervalTick(MaxCredRefreshTicks)
    \/ PollTick
    \/ \E c \in inflight, a \in Answers("auth") : AuthComplete(c, a[1], a[2])
    \/ \E c \in inflight, a \in Answers("refresh") :
          RefreshComplete(c, a[1], a[2])
    \/ \E c \in inflight, a \in Answers("poll") : PollComplete(c, a[1], a[2])
    \/ HandleSetAuthToken
    \/ HandleUpdateThermostat
    \/ HandleEcobeeQuery

SpecCred == Init /\ [][NextCred]_vars

\* ------------------------------------------ send_request on its own inputs
\* Every body shape: any subset of the keys, each present key with a value.
SendBodies ==
    { Garbage } \cup
    { [json |-> TRUE, keys |-> K,
       access_token |-> IF "access_token" \in K THEN AccessOf(k) ELSE 0,
       refresh_token |-> IF "refresh_token" \in K THEN RefreshOf(k) ELSE 0,
       error |-> IF "error" \in K THEN e[1] ELSE "",
       error_description |-> IF "error_description" \in K THEN e[2] ELSE "",
       thermostatList |-> IF "thermostatList" \in K THEN l ELSE <<>>] :
      K \in SUBSET Keys, k \in 1..2,
      e \in { <<"invalid_grant", "expired">>, <<"invalid_client", "unknown">> },
      l \in DeviceLists }

SendRequest(T, transport_ok, body) ==
    /\ exchange' = [T |-> T, transport_ok |-> transport_ok, body |-> body,
                    result |-> send_request(T, transport_ok, body)]
    /\ UNCHANGED <<started, auth_token, thermostats, inflight, mailbox, minted,
                   pollTicks, refreshTicks, newest, last>>

NextSend ==
    \E T \in {"AuthToken", "ThermostatResponse"}, transport_ok \in BOOLEAN,
       body \in SendBodies : SendRequest(T, transport_ok, body)

SpecSend == Init /\ [][NextSend]_vars

\* ------------------------------------- the query handler on its own inputs
\* The devices a poll may have cached: every mode string of interest with
\* a range of raw readings.
StatusDevices ==
    { Thermostat(t, 40, sp[1], sp[2], dh, m) :
        t \in {0, 310, 320, 725, 980},
        sp \in { <<680, 780>>, <<700, 760>>, <<600, 620>> },
        dh \in {0, 45},
        m \in {"auto", "cool", "heat", "off", "dry", "AUTO", ""} }

\* The actor after some poll has cached one device.
InitStatus ==
    /\ started = TRUE
    /\ auth_token = Some(AuthToken(AccessOf(1), RefreshOf(1)))
    /\ thermostats \in { <<d>> : d \in StatusDevices }
    /\ inflight = {}
    /\ mailbox = <<>>
    /\ minted = 1
    /\ pollTicks = 1
    /\ refreshTicks = 0
    /\ newest = [n |-> 1, thermostats |-> thermostats]
    /\ last = Event("UpdateThermostat", TRUE)
    /\ exchange = Exchange0

NextStatus == HandleEcobeeQuery

SpecStatus == InitStatus /\ [][NextStatus]_vars

\* ================================================================= claims

\* C1: a poll tick whose vendor call fails (request not built, transport
\* error, unparsable body, vendor error envelope) leaves the cached device
\* list as it was, so get_status answers after it as it did before it.
C1_FailedPollKeepsCache ==
    [][(last'.op \in {"poll_tick", "poll_done"} /\ ~last'.ok)
         => /\ thermostats' = thermostats
            /\ EcobeeQueryHandle(thermostats') = EcobeeQueryHandle(thermostats)]_vars

\* A poll has failed while a device was cached.
C1_Witness ==
    /\ last.op = "poll_done"
    /\ ~last.ok
    /\ thermostats # <<>>

\* C2 (as claimed): a poll the vendor answers with an empty device list
\* leaves the prior snapshot untouched: when a device is cached, applying
\* the result of such a poll does not change what get_status returns.
C2_EmptyListKeepsSnapshot ==
    [][(/\ last'.op = "UpdateThermostat"
        /\ Head(mailbox).thermostats = <<>>
        /\ EcobeeQueryHandle(thermostats).ok)
         => EcobeeQueryHandle(thermostats') = EcobeeQueryHandle(thermostats)]_vars

\* C3 (as claimed): the cached device list is the payload of the
\* latest-issued poll among the polls whose result was applied (stated for
\* non-empty payloads, whatever the order the results were delivered in).
C3_SnapshotIsLatestIssued ==
    (newest.n > 0 /\ newest.thermostats # <<>> /\ thermostats # <<>>)
      => thermostats = newest.thermostats

\* C4: while no poll result has ever been applied, a status query is
\* accepted (the handler is enabled, it waits for nothing) and answers
\* with the "no thermostat available" error.
C4_QueryBeforeAnyPoll ==
    /\ started => ENABLED HandleEcobeeQuery
    /\ (last.op = "EcobeeQuery" /\ newest.n = 0)
         => last.reply = ErrStatus("no thermostat available")

\* A query was answered with no token stored, no call in flight and no
\* result pending: the initial authentication is over and has failed.
C4_Witness ==
    /\ last.op = "EcobeeQuery"
    /\ ~last.reply.ok
    /\ auth_token = None
    /\ inflight = {}
    /\ mailbox = <<>>
    /\ pollTicks > 0

\* C5: while no credential is stored, no step sends an authenticated
\* request (only the initial auth call can be added to the calls in
\* flight), and a poll tick fails at once, sends nothing and changes
\* neither the credential nor the cache.
C5_NoRequestWithoutCredential ==
    [][auth_token = None
         => /\ \A c \in inflight' \ inflight : c.kind = "auth"
            /\ last'.op = "poll_tick"
                 => /\ ~last'.ok
                    /\ inflight' = inflight
                    /\ auth_token' = auth_token
                    /\ thermostats' = thermostats]_vars

\* A poll tick has fired with no credential stored.
C5_Witness ==
    /\ last.op = "poll_tick"
    /\ ~last.ok
    /\ auth_token = None

\* C6: a refresh whose vendor call fails leaves the stored token pair as
\* it was (and stored), and every poll tick sends its request with the
\* access token stored when it fires.
C6_RefreshFailureKeepsCredential ==
    [][/\ (last'.op = "refresh_done" /\ ~last'.ok)
            => (auth_token' = auth_token /\ auth_token' # None)
       /\ (last'.op = "poll_tick" /\ last'.ok)
            => /\ auth_token # None
               /\ inflight' \ inflight =
                    {Call("poll", pollTicks', auth_token[1].access_token)}]_vars

\* A refresh has failed and a token pair is still stored.
C6_Witness ==
    /\ last.op = "refresh_done"
    /\ ~last.ok
    /\ auth_token # None

\* C7: applying the result of a successful poll replaces the cache by the
\* polled list, whatever was cached, and get_status then returns the
\* normalization of the first device of that list.
C7_StatusIsNormalizedFirstDevice ==
    [][(last'.op = "UpdateThermostat" /\ Head(mailbox).thermostats # <<>>)
         => /\ thermostats' = Head(mailbox).thermostats
            /\ EcobeeQueryHandle(thermostats') =
                 OkStatus(Normalize(Head(mailbox).thermostats[1]))]_vars

\* The second poll's two-device list has been applied.
C7_Witness ==
    /\ last.op = "UpdateThermostat"
    /\ newest.n = 2
    /\ thermostats = <<DevB, DevC>>

\* C8: every status a query returns is the normalization of the first
\* device of one whole polled payload, never a combination of the fields
\* of two payloads.
C8_StatusFromOnePayload ==
    (last.op = "EcobeeQuery" /\ last.reply.ok)
      => \E l \in DeviceLists \ {<<>>} : last.reply.status = Normalize(l[1])

\* A query was answered from the device the second poll cached while the
\* first poll was still in flight.
C8_Witness ==
    /\ last.op = "EcobeeQuery"
    /\ last.reply.ok
    /\ newest.n = 2
    /\ \E c \in inflight : c.kind = "poll" /\ c.n = 1

\* C9: the cached device list changes only in the UpdateThermostat
\* handler; receiving a write command and the vendor's confirmation of it
\* leave what get_status returns as it was.
C9_WriteLeavesCache ==
    [][/\ thermostats' # thermostats => last'.op = "UpdateThermostat"
       /\ last'.op \in {"ChangeThermostat", "write_done"}
            => EcobeeQueryHandle(thermostats') = EcobeeQueryHandle(thermostats)]_vars

\* A write was confirmed while a device was cached.
C9_Witness ==
    /\ last.op = "write_done"
    /\ last.ok
    /\ thermostats # <<>>

\* C10: a buffered body that holds the success type's fields succeeds with
\* their values; otherwise a body that holds error and error_description
\* fails with a RemoteError of exactly that pair; otherwise the call fails
\* with the parse error of the success type.
C10_BodyClassification ==
    (exchange.T # "" /\ exchange.transport_ok)
      => LET b == exchange.body
             r == exchange.result
             success ==
                 /\ b.json
                 /\ exchange.T = "AuthToken"
                      => {"access_token", "refresh_token"} \subseteq b.keys
                 /\ exchange.T = "ThermostatResponse"
                      => "thermostatList" \in b.keys
             envelope ==
                 b.json /\ {"error", "error_description"} \subseteq b.keys
         IN /\ success
                 => /\ r.tag = "Ok"
                    /\ exchange.T = "AuthToken"
                         => r.token = AuthToken(b.access_token, b.refresh_token)
                    /\ exchange.T = "ThermostatResponse"
                         => r.thermostats = b.thermostatList
            /\ (~success /\ envelope)
                 => r = RemoteError(b.error, b.error_description)
            /\ (~success /\ ~envelope)
                 => (r.tag = "JsonError" /\ r.of = exchange.T)

\* A body with half a token and half an envelope was classified: it
\* failed with the token type's parse error.
C10_Witness ==
    /\ exchange.T = "AuthToken"
    /\ exchange.body.keys = {"access_token", "error"}
    /\ exchange.result = JsonError("AuthToken", <<"missing field", "refresh_token">>)

\* The device a query was just answered from.
Queried == thermostats[1]

\* C11: the mode a query reports is a total function of the cached
\* hvacMode string: "auto" gives 3, "cool" 2, "heat" 1, "off" and every
\* other string 0; both mode fields carry it and it is always in 0..3.
C11_ModeMapping ==
    (last.op = "EcobeeQuery" /\ thermostats # <<>>)
      => LET m == Queried.hvac_mode
             code == last.reply.status.current_heating_cooling_state
         IN /\ last.reply.ok
            /\ code \in 0..3
            /\ last.reply.status.target_heating_cooling_state = code
            /\ m = "auto" => code = 3
            /\ m = "cool" => code = 2
            /\ m = "heat" => code = 1
            /\ m = "off" => code = 0
            /\ m \notin {"auto", "cool", "heat"} => code = 0

\* A device in mode "cool" was reported as 2.
C11_Witness ==
    /\ last.op = "EcobeeQuery"
    /\ Queried.hvac_mode = "cool"
    /\ last.reply.status.current_heating_cooling_state = 2

\* C12 (as claimed): a cached actualTemperature of 980 is reported as
\* 15.44 degrees Celsius.
C12_Reports1544 ==
    (last.op = "EcobeeQuery" /\ thermostats # <<>>
       /\ Queried.temperature = 980)
      => last.reply.status.current_temperature = 1544

\* C12 (amended): a cached actualTemperature of 980 is reported as
\* (98.0 - 32) / 1.8, 36.67 degrees Celsius to two decimals.
C12_Reports3667 ==
    (last.op = "EcobeeQuery" /\ thermostats # <<>>
       /\ Queried.temperature = 980)
      => (last.reply.ok /\ last.reply.status.current_temperature = 3667)

\* A device reading 980 was queried.
C12_Witness ==
    /\ last.op = "EcobeeQuery"
    /\ last.reply.ok
    /\ Queried.temperature = 980

\* C13: the reported target temperature t is the hundredth nearest to
\* ((desiredHeat + desiredCool) / 20 - 32) / 1.8, which is 22.78 for 680
\* and 780, and the reported target humidity is desiredHumidity / 100.
C13_TargetIsAverage ==
    (last.op = "EcobeeQuery" /\ thermostats # <<>>)
      => LET t == last.reply.status.target_temperature
             sum == Queried.desired_heat + Queried.desired_cool
             \* 3600 * (t / 100 - ((sum / 20) - 32) / 1.8)
             d == 36 * t - 100 * (sum - 640)
         IN /\ last.reply.ok
            /\ -18 <= d /\ d <= 18
            /\ (Queried.desired_heat = 680 /\ Queried.desired_cool = 780)
                 => t = 2278
            /\ last.reply.status.target_relative_humidity =
                 Queried.desired_humidity
            /\ Queried.desired_humidity = 45
                 => last.reply.status.target_relative_humidity = 45

\* The device with set points 680 and 780 and target humidity 45 was queried.
C13_Witness ==
    /\ last.op = "EcobeeQuery"
    /\ Queried.desired_heat = 680
    /\ Queried.desired_cool = 780
    /\ Queried.desired_humidity = 45
    /\ last.reply.status.target_temperature = 2278

\* C14: a poll or refresh that fails ends there: the step removes the
\* failed call and sends nothing in its place, the actor stays started and
\* the tick counts are as they were, so both timers fire as before; a poll
\* or refresh request is only ever sent by its own timer's tick.
C14_FailureEndsOnlyItsTick ==
    [][/\ (last'.op \in {"poll_done", "refresh_done"} /\ ~last'.ok)
            => /\ \E c \in inflight : inflight' = inflight \ {c}
               /\ started'
               /\ pollTicks' = pollTicks
               /\ refreshTicks' = refreshTicks
               /\ mailbox' = mailbox
       /\ \A c \in inflight' \ inflight :
            /\ c.kind = "poll" => (last'.op = "poll_tick" /\ c.n = pollTicks')
            /\ c.kind = "refresh"
                 => (last'.op = "refresh_tick" /\ c.n = refreshTicks')]_vars

\* The first poll came to nothing (it is neither in flight, nor waiting in
\* the mailbox, nor applied) and the second tick has fired and sent its
\* own request.
C14_Witness ==
    /\ last.op = "poll_tick"
    /\ last.ok
    /\ pollTicks = 2
    /\ newest.n = 0
    /\ mailbox = <<>>
    /\ \A c \in inflight : c.kind = "poll" => c.n = 2

\* C15: in every state of the started actor, whatever calls are in
\* flight, a status query is accepted and the reply is computed from the
\* cache as it is, and each timer that has ticks left can fire.
C15_QueriesNeverBlocked ==
    started
      => /\ ENABLED HandleEcobeeQuery
         /\ pollTicks < MaxPollTicks => ENABLED PollTick
         /\ refreshTicks < MaxRefreshTicks => ENABLED RefreshTick
         /\ last.op = "EcobeeQuery"
              => last.reply = EcobeeQueryHandle(thermostats)

\* A query was answered while a poll and a refresh were both in flight.
C15_Witness ==
    /\ last.op = "EcobeeQuery"
    /\ \E c \in inflight : c.kind = "poll"
    /\ \E c \in inflight : c.kind = "refresh"

\* C16: a refresh tick with no credential stored sends nothing; with one
\* stored it sends exactly one refresh request, carrying the refresh token
\* of the credential stored as the tick fires; no other step sends a
\* refresh request.
C16_RefreshUsesStoredToken ==
    [][/\ last'.op = "refresh_tick"
            => IF auth_token = None
               THEN inflight' = inflight
               ELSE inflight' \ inflight =
                      {Call("refresh", refreshTicks', auth_token[1].refresh_token)}
       /\ \A c \in inflight' \ inflight :
            c.kind = "refresh" => last'.op = "refresh_tick"]_vars

\* The second tick has sent the refresh token that the first refresh
\* obtained, not the one of the initial authentication.
C16_Witness ==
    /\ last.op = "refresh_tick"
    /\ refreshTicks = 2
    /\ auth_token = Some(AuthToken(AccessOf(2), RefreshOf(2)))
    /\ Call("refresh", 2, RefreshOf(2)) \in inflight

\* C17: a poll request is sent only by a poll tick, only with a
\* credential stored, and its bearer is the access token stored as the
\* tick builds the request.
C17_PollUsesStoredToken ==
    [][/\ last'.op = "poll_tick"
            => /\ last'.ok = (auth_token # None)
               /\ \A c \in inflight' \ inflight :
                    /\ c.kind = "poll"
                    /\ c.cred = Bearer(auth_token[1].access_token)
       /\ \A c \in inflight' \ inflight :
            c.kind = "poll" => (last'.op = "poll_tick" /\ auth_token # None)]_vars

\* A poll request was built after a refresh had replaced the credential:
\* it carries the second access token.
C17_Witness ==
    /\ last.op = "poll_tick"
    /\ auth_token = Some(AuthToken(AccessOf(2), RefreshOf(2)))
    /\ \E c \in inflight : c.kind = "poll" /\ c.n = pollTicks
                             /\ c.cred = Bearer(AccessOf(2))

\* The stored credential is one whole pair the vendor minted.
WholePair(token) ==
    token # None
      => \E k \in 1..minted : token[1] = AuthToken(AccessOf(k), RefreshOf(k))

\* C18: no credential is stored before the actor starts; a stored
\* credential is never removed; and the stored pair is always the access
\* token and the refresh token of one and the same vendor response.
C18_CredentialIsOnePair ==
    [][/\ ~started => auth_token = None
       /\ auth_token # None => auth_token' # None
       /\ WholePair(auth_token)
       /\ WholePair(auth_token')]_vars

\* A refresh has replaced the first pair by the second.
C18_Witness ==
    /\ last.op = "SetAuthToken"
    /\ refreshTicks > 0
    /\ auth_token = Some(AuthToken(AccessOf(2), RefreshOf(2)))

\* The initial authentication is over and left no credential: no token is
\* stored, no auth call is in flight and no SetAuthToken is waiting.
AuthFailed ==
    /\ started
    /\ auth_token = None
    /\ \A c \in inflight : c.kind # "auth"
    /\ \A i \in 1..Len(mailbox) : mailbox[i].type # "SetAuthToken"

\* C19: the auth request is sent by Actor::started alone; when it fails
\* nothing is left in flight, and from then on the credential stays
\* absent, the cache stays empty, no request is sent by any tick, and a
\* query is answered with the "no thermostat available" error.
C19_NoRetryOfInitialAuth ==
    [][/\ \A c \in inflight' \ inflight :
            c.kind = "auth" => (last'.op = "started" /\ ~started)
       /\ (last'.op = "auth_done" /\ ~last'.ok) => AuthFailed'
       /\ AuthFailed
            => /\ AuthFailed'
               /\ thermostats' = <<>>
               /\ inflight' = {}
               /\ last'.op \in {"refresh_tick", "poll_tick"} => ~last'.ok
               /\ last'.op = "EcobeeQuery"
                    => last'.reply = ErrStatus("no thermostat available")]_vars

\* After the failed authentication both timers have fired to their last
\* tick and a query was answered.
C19_Witness ==
    /\ AuthFailed
    /\ last.op = "EcobeeQuery"
    /\ pollTicks = MaxPollTicks
    /\ refreshTicks = MaxRefreshTicks

\* C20: the credential changes only in the SetAuthToken handler and the
\* cache only in the UpdateThermostat handler; a call that succeeds while
\* the mailbox is full is dropped: the mailbox, the credential and the
\* cache stay as they were and no call is sent in its place.
C20_ResultsOnlyThroughMailbox ==
    [][/\ auth_token' # auth_token => last'.op = "SetAuthToken"
       /\ thermostats' # thermostats => last'.op = "UpdateThermostat"
       /\ last'.op \in {"auth_done", "refresh_done", "poll_done"}
            => /\ \E c \in inflight : inflight' = inflight \ {c}
               /\ (last'.ok /\ Len(mailbox) < MailboxCap)
                    => (Len(mailbox') = Len(mailbox) + 1
                        /\ SubSeq(mailbox', 1, Len(mailbox)) = mailbox)
               /\ ~(last'.ok /\ Len(mailbox) < MailboxCap)
                    => mailbox' = mailbox
               /\ auth_token' = auth_token
               /\ thermostats' = thermostats]_vars

\* A poll succeeded while a SetAuthToken filled the mailbox: its result
\* was dropped.
C20_Witness ==
    /\ last.op = "poll_done"
    /\ last.ok
    /\ Len(mailbox) = MailboxCap
    /\ \A i \in 1..Len(mailbox) : mailbox[i].type = "SetAuthToken"

====
